---- MODULE Spec2Model ----
(***************************************************************************)
(* FrontMonthValidator (front_month_validator.py): one validator object    *)
(* per record.  Text is a sequence of one-character strings, so that       *)
(* splitting, stripping and date-time parsing are computed character by    *)
(* character as the code does.  An Optional[...] field is <<>> for None    *)
(* and <<v>> for the value v.                                              *)
(***************************************************************************)
EXTENDS Integers, Sequences, FiniteSets, TLC

(***************************************************************************)
(* Bounds of the explored inputs.                                          *)
(***************************************************************************)
FirstYear == 2028
NumYears == 2
MaxTrailingZ == 2
MaxMiddleFields == 2

Years == FirstYear..(FirstYear + NumYears - 1)

(***************************************************************************)
(* Python values.                                                          *)
(***************************************************************************)
None == <<>>
Some(v) == <<v>>
IsNone(o) == o = <<>>
Value(o) == o[1]

(***************************************************************************)
(* MONTH_CODES and sorted(MONTH_CODES.values()).                           *)
(***************************************************************************)
MONTH_CODES == [c \in {"H", "M", "U", "Z"} |->
                  CASE c = "H" -> 3 [] c = "M" -> 6 [] c = "U" -> 9 [] c = "Z" -> 12]

valid_months == <<3, 6, 9, 12>>

(***************************************************************************)
(* str primitives.                                                         *)
(***************************************************************************)
DigitChars == <<"0", "1", "2", "3", "4", "5", "6", "7", "8", "9">>
IsDigit(c) == \E i \in 1..10 : DigitChars[i] = c
DigitVal(c) == (CHOOSE i \in 1..10 : DigitChars[i] = c) - 1
Whitespace == {" ", "\n"}

Min(a, b) == IF a <= b THEN a ELSE b

\* c in s
Contains(s, c) == \E i \in 1..Len(s) : s[i] = c

\* index of the first occurrence of c in s, 0 when there is none
Find(s, c) == IF Contains(s, c)
              THEN CHOOSE i \in 1..Len(s) : s[i] = c /\ \A j \in 1..(i - 1) : s[j] # c
              ELSE 0

\* s.split(c): the fields between the occurrences of c
RECURSIVE Split(_, _)
Split(s, c) == LET i == Find(s, c)
               IN  IF i = 0 THEN <<s>>
                   ELSE <<SubSeq(s, 1, i - 1)>> \o Split(SubSeq(s, i + 1, Len(s)), c)

\* s.split(c, 1): cut at the first occurrence only (c is known to occur)
SplitOnce(s, c) == LET i == Find(s, c)
                   IN  <<SubSeq(s, 1, i - 1), SubSeq(s, i + 1, Len(s))>>

\* s.rstrip(c): every trailing c is removed
RECURSIVE RStrip(_, _)
RStrip(s, c) == IF Len(s) > 0 /\ s[Len(s)] = c
                THEN RStrip(SubSeq(s, 1, Len(s) - 1), c)
                ELSE s

\* s.strip(): leading and trailing whitespace removed
RECURSIVE LStripWs(_)
LStripWs(s) == IF Len(s) > 0 /\ s[1] \in Whitespace
               THEN LStripWs(SubSeq(s, 2, Len(s)))
               ELSE s

RECURSIVE RStripWs(_)
RStripWs(s) == IF Len(s) > 0 /\ s[Len(s)] \in Whitespace
               THEN RStripWs(SubSeq(s, 1, Len(s) - 1))
               ELSE s

Strip(s) == RStripWs(LStripWs(s))

\* s[:n]
Prefix(s, n) == SubSeq(s, 1, Min(n, Len(s)))

AllDigits(s) == \A i \in 1..Len(s) : IsDigit(s[i])

\* the number a string of decimal digits denotes
RECURSIVE ParseInt(_)
ParseInt(s) == IF Len(s) = 0 THEN 0
               ELSE 10 * ParseInt(SubSeq(s, 1, Len(s) - 1)) + DigitVal(s[Len(s)])

(***************************************************************************)
(* datetime.date: the proleptic Gregorian calendar.                        *)
(***************************************************************************)
IsLeap(y) == y % 4 = 0 /\ (y % 100 # 0 \/ y % 400 = 0)

DaysInMonth(y, m) == IF m = 2 THEN (IF IsLeap(y) THEN 29 ELSE 28)
                     ELSE IF m \in {4, 6, 9, 11} THEN 30 ELSE 31

DaysBeforeYear(y) == (y - 1) * 365 + ((y - 1) \div 4) - ((y - 1) \div 100) + ((y - 1) \div 400)

RECURSIVE DaysBeforeMonth(_, _)
DaysBeforeMonth(y, m) == IF m = 1 THEN 0
                         ELSE DaysBeforeMonth(y, m - 1) + DaysInMonth(y, m - 1)

\* date.toordinal(): 1 for 0001-01-01
ToOrdinal(dd) == DaysBeforeYear(dd.year) + DaysBeforeMonth(dd.year, dd.month) + dd.day

\* date.weekday(): Monday = 0 ... Sunday = 6
Weekday(dd) == (ToOrdinal(dd) + 6) % 7

Date(y, m, d) == [year |-> y, month |-> m, day |-> d]

\* date.fromordinal(n)
FromOrdinal(n) ==
    LET n0   == n - 1
        n400 == n0 \div 146097
        r400 == n0 % 146097
        n100 == r400 \div 36524
        r100 == r400 % 36524
        n4   == r100 \div 1461
        r4   == r100 % 1461
        n1   == r4 \div 365
        r1   == r4 % 365
        year == n400 * 400 + 1 + n100 * 100 + n4 * 4 + n1
    IN  IF n1 = 4 \/ n100 = 4 THEN Date(year - 1, 12, 31)
        ELSE LET m == CHOOSE mm \in 1..12 :
                        /\ DaysBeforeMonth(year, mm) <= r1
                        /\ r1 < DaysBeforeMonth(year, mm) + DaysInMonth(year, mm)
             IN  Date(year, m, r1 - DaysBeforeMonth(year, m) + 1)

\* date + timedelta(days = n)
AddDays(dd, n) == FromOrdinal(ToOrdinal(dd) + n)

\* date <= date
DateLeq(a, b) == \/ a.year < b.year
                 \/ a.year = b.year /\ a.month < b.month
                 \/ a.year = b.year /\ a.month = b.month /\ a.day <= b.day

(***************************************************************************)
(* datetime.fromisoformat, extended format: YYYY-MM-DD, then optionally    *)
(* one separator character and HH[:MM[:SS[.f+]]].  The result is           *)
(* [err |-> TRUE] for ValueError and [err |-> FALSE, dt |-> ...] otherwise.*)
(* Offsets, basic (undashed) and week dates are not among the inputs.      *)
(***************************************************************************)
ValueError == [err |-> TRUE]

\* the fraction digits as microseconds: at most six digits count, padded right
Microseconds(f) == LET k == Min(6, Len(f))
                       RECURSIVE Pow10(_)
                       Pow10(e) == IF e = 0 THEN 1 ELSE 10 * Pow10(e - 1)
                   IN  ParseInt(SubSeq(f, 1, k)) * Pow10(6 - k)

\* HH[:MM[:SS[.f+]]]
ParseTime(t) ==
    LET n  == Len(t)
        two(i) == SubSeq(t, i, i + 1)
        shapeOk == /\ (n \in {2, 5, 8} \/ n >= 10)
                   /\ AllDigits(two(1))
                   /\ n >= 5 => (t[3] = ":" /\ AllDigits(two(4)))
                   /\ n >= 8 => (t[6] = ":" /\ AllDigits(two(7)))
                   /\ n >= 10 => (t[9] = "." /\ AllDigits(SubSeq(t, 10, n)))
    IN  IF ~shapeOk THEN ValueError
        ELSE LET hh == ParseInt(two(1))
                 mi == IF n >= 5 THEN ParseInt(two(4)) ELSE 0
                 ss == IF n >= 8 THEN ParseInt(two(7)) ELSE 0
                 us == IF n >= 10 THEN Microseconds(SubSeq(t, 10, n)) ELSE 0
             IN  IF hh > 23 \/ mi > 59 \/ ss > 59 THEN ValueError
                 ELSE [err |-> FALSE, hour |-> hh, minute |-> mi, second |-> ss,
                       microsecond |-> us]

fromisoformat(s) ==
    LET n == Len(s)
        dateShape == /\ n >= 10
                     /\ AllDigits(SubSeq(s, 1, 4)) /\ s[5] = "-"
                     /\ AllDigits(SubSeq(s, 6, 7)) /\ s[8] = "-"
                     /\ AllDigits(SubSeq(s, 9, 10))
    IN  IF ~dateShape \/ n = 11 THEN ValueError
        ELSE LET y == ParseInt(SubSeq(s, 1, 4))
                 m == ParseInt(SubSeq(s, 6, 7))
                 d == ParseInt(SubSeq(s, 9, 10))
                 t == IF n = 10
                      THEN [err |-> FALSE, hour |-> 0, minute |-> 0, second |-> 0,
                            microsecond |-> 0]
                      ELSE ParseTime(SubSeq(s, 12, n))
             IN  IF y < 1 \/ m < 1 \/ m > 12 THEN ValueError
                 ELSE IF d < 1 \/ d > DaysInMonth(y, m) THEN ValueError
                 ELSE IF t.err THEN ValueError
                 ELSE [err |-> FALSE,
                       dt |-> [year |-> y, month |-> m, day |-> d, hour |-> t.hour,
                               minute |-> t.minute, second |-> t.second,
                               microsecond |-> t.microsecond]]

(***************************************************************************)
(* FrontMonthValidator.get_third_friday.                                   *)
(***************************************************************************)
\* variant: the weekday looked for is 5
days_until_friday_Saturday(d) == (5 - Weekday(d) + 7) % 7

days_until_friday(d) == (4 - Weekday(d) + 7) % 7

\* variant: three weeks are added to the first Friday
get_third_friday_ThreeWeeks(year, month) ==
    LET d == Date(year, month, 1)
        first_friday == AddDays(d, (4 - Weekday(d) + 7) % 7)
    IN  AddDays(first_friday, 21)

get_third_friday(year, month) ==
    LET d == Date(year, month, 1)
        first_friday == AddDays(d, days_until_friday(d))
    IN  AddDays(first_friday, 14)

(***************************************************************************)
(* FrontMonthValidator.parse_record: the return value and the fields it    *)
(* assigns (None when it assigns nothing).                                 *)
(***************************************************************************)
\* the timestamp clean-up: trailing 'Z' removed, fraction cut to six digits
CleanTimestamp(timestamp_str) ==
    LET ts_str == RStrip(timestamp_str, "Z")
    IN  IF Contains(ts_str, ".")
        THEN LET p == SplitOnce(ts_str, ".")
             IN  p[1] \o <<".">> \o Prefix(p[2], 6)
        ELSE ts_str

\* variant: only a leading hyphen is looked for
IsSpread_LeadingOnly(symbol_candidate) ==
    Len(symbol_candidate) > 0 /\ symbol_candidate[1] = "-"

\* '-' in symbol_candidate
IsSpread(symbol_candidate) == Contains(symbol_candidate, "-")

parse_record(rec) ==
    LET parts == Split(rec, ",")
        failed == [ret |-> FALSE, dt |-> None, symbol |-> None]
    IN  IF Len(parts) < 2 THEN failed
        ELSE LET timestamp_str == Strip(parts[1])
                 symbol_candidate == Strip(parts[Len(parts)])
             IN  IF IsSpread(symbol_candidate) THEN failed
                 ELSE LET parsed == fromisoformat(CleanTimestamp(timestamp_str))
                      IN  IF parsed.err THEN failed
                          ELSE [ret |-> TRUE, dt |-> Some(parsed.dt),
                                symbol |-> Some(symbol_candidate)]

(***************************************************************************)
(* FrontMonthValidator.next_valid_month_and_year.                          *)
(***************************************************************************)
\* variant: the wrap keeps the year
next_valid_month_and_year_SameYear(year, current_month) ==
    IF \E i \in 1..Len(valid_months) : valid_months[i] > current_month
    THEN LET i == CHOOSE k \in 1..Len(valid_months) :
                    /\ valid_months[k] > current_month
                    /\ \A j \in 1..(k - 1) : ~(valid_months[j] > current_month)
         IN  <<year, valid_months[i]>>
    ELSE <<year, valid_months[1]>>

\* variant: the comparison is m > current_month + 1
next_valid_month_and_year_OffByOne(year, current_month) ==
    IF \E i \in 1..Len(valid_months) : valid_months[i] > current_month + 1
    THEN LET i == CHOOSE k \in 1..Len(valid_months) :
                    /\ valid_months[k] > current_month + 1
                    /\ \A j \in 1..(k - 1) : ~(valid_months[j] > current_month + 1)
         IN  <<year, valid_months[i]>>
    ELSE <<year + 1, valid_months[1]>>

next_valid_month_and_year(year, current_month) ==
    IF \E i \in 1..Len(valid_months) : valid_months[i] > current_month
    THEN LET i == CHOOSE k \in 1..Len(valid_months) :
                    /\ valid_months[k] > current_month
                    /\ \A j \in 1..(k - 1) : ~(valid_months[j] > current_month)
         IN  <<year, valid_months[i]>>
    ELSE <<year + 1, valid_months[1]>>

(***************************************************************************)
(* FrontMonthValidator.compute_candidate_month: the (year, month) it       *)
(* assigns for the date of self.dt.                                        *)
(***************************************************************************)
\* variant: ts_date < expiration
StillFront_Strict(ts_date, expiration) ==
    DateLeq(ts_date, expiration) /\ ts_date # expiration

\* ts_date <= expiration
StillFront(ts_date, expiration) == DateLeq(ts_date, expiration)

compute_candidate_month(dtv) ==
    LET ts_date == Date(dtv.year, dtv.month, dtv.day)
        current_year == ts_date.year
        current_month == ts_date.month
    IN  IF \E i \in 1..Len(valid_months) : valid_months[i] = current_month
        THEN IF StillFront(ts_date, get_third_friday(current_year, current_month))
             THEN <<current_year, current_month>>
             ELSE next_valid_month_and_year(current_year, current_month)
        ELSE next_valid_month_and_year(current_year, current_month)

(***************************************************************************)
(* FrontMonthValidator.parse_symbol: ret is the return value, raised says  *)
(* that an exception left the method, sym_month and sym_year are the       *)
(* fields after the call.                                                  *)
(***************************************************************************)
\* variant: only "not self.symbol"
SymbolTooShort_EmptyOnly(sym) == IsNone(sym) \/ Len(Value(sym)) = 0

\* the guard of the first return
SymbolTooShort(sym) == IsNone(sym) \/ Len(Value(sym)) < 3

\* variant: no step to the next decade
contract_year_NoRoll(cy, digit) == (cy \div 10) * 10 + digit

\* the year a digit denotes, given the candidate year
contract_year(cy, digit) ==
    LET candidate_decade == (cy \div 10) * 10
        cyear == candidate_decade + digit
    IN  IF cyear < cy THEN cyear + 10 ELSE cyear

parse_symbol(sym, cy, old_month, old_year) ==
    LET out(r, x, sm, sy) == [ret |-> r, raised |-> x, sym_month |-> sm, sym_year |-> sy]
    IN  IF SymbolTooShort(sym) THEN out(FALSE, FALSE, old_month, old_year)
        ELSE IF IsNone(sym) \/ Len(Value(sym)) < 2
             THEN out(FALSE, TRUE, old_month, old_year)   \* TypeError, IndexError
        ELSE LET s == Value(sym)
                 month_code == s[Len(s) - 1]
                 year_digit == s[Len(s)]
             IN  IF month_code \notin DOMAIN MONTH_CODES
                 THEN out(FALSE, FALSE, old_month, old_year)
                 ELSE IF ~IsDigit(year_digit)
                 THEN out(FALSE, FALSE, old_month, old_year)
                 ELSE IF IsNone(cy)
                 THEN out(FALSE, FALSE, Some(MONTH_CODES[month_code]), old_year)
                 ELSE out(TRUE, FALSE, Some(MONTH_CODES[month_code]),
                          Some(contract_year(Value(cy), DigitVal(year_digit))))

(***************************************************************************)
(* The records given to FrontMonthValidator(record).  A record is          *)
(* described by the parts it is written from (the shape of the test        *)
(* records) and rendered to text; the validator sees the text only.        *)
(***************************************************************************)
TwoDigits(n) == <<DigitChars[(n \div 10) + 1], DigitChars[(n % 10) + 1]>>
FourDigits(n) == TwoDigits(n \div 100) \o TwoDigits(n % 100)

RECURSIVE Repeat(_, _)
Repeat(s, n) == IF n = 0 THEN <<>> ELSE s \o Repeat(s, n - 1)

\* the timestamp field: a date-time with its fraction, or a raw text, then 'Z's
TimestampText(i) ==
    (IF i.kind = "text" THEN i.text
     ELSE FourDigits(i.y) \o <<"-">> \o TwoDigits(i.m) \o <<"-">> \o TwoDigits(i.d)
          \o <<"T">> \o TwoDigits(i.hh) \o <<":">> \o TwoDigits(i.mi) \o <<":">>
          \o TwoDigits(i.ss)
          \o (IF Len(i.frac) > 0 THEN <<".">> \o i.frac ELSE <<>>))
    \o Repeat(<<"Z">>, i.zs)

Padded(i, s) == IF i.pad THEN <<" ">> \o s \o <<" ">> ELSE s

RecordText(i) ==
    IF i.fields = 1 THEN TimestampText(i)
    ELSE Padded(i, TimestampText(i)) \o Repeat(<<",", "3", "3">>, i.fields - 2)
         \o <<",">> \o Padded(i, i.sym)

Ticker(code, digit) == <<"N", "Q", code, DigitChars[digit + 1]>>

Codes == {"H", "M", "U", "Z"}

BaseInput == [kind |-> "stamp", y |-> FirstYear, m |-> 3, d |-> 12,
              hh |-> 6, mi |-> 12, ss |-> 0, frac |-> <<"0", "0", "0">>, zs |-> 1,
              text |-> <<>>, ok |-> TRUE, fields |-> MaxMiddleFields + 2, pad |-> FALSE,
              sym |-> Ticker("H", FirstYear % 10)]

FirstInstant == [hh |-> 0, mi |-> 0, ss |-> 0, frac |-> <<>>]
LastInstant == [hh |-> 23, mi |-> 59, ss |-> 59, frac |-> <<"9", "9", "9", "9", "9", "9">>]

At(i, y, m, d, t) == [i EXCEPT !.y = y, !.m = m, !.d = d, !.hh = t.hh, !.mi = t.mi,
                               !.ss = t.ss, !.frac = t.frac]

\* every day number 1..31 of every month at 00:00:00, with every suffix
CalendarInput(i) ==
    \E y \in Years, m \in 1..12, d \in 1..31, c \in Codes, g \in 0..9 :
        i = [At(BaseInput, y, m, d, FirstInstant) EXCEPT !.sym = Ticker(c, g)]

\* the same days at 23:59:59.999999, with the suffixes of this year and the next
LastInstantInput(i) ==
    \E y \in Years, m \in 1..12, d \in 1..31, c \in Codes, k \in {0, 1} :
        i = [At(BaseInput, y, m, d, LastInstant) EXCEPT !.sym = Ticker(c, (y + k) % 10)]

\* the ways a good timestamp and record are written: fraction length, number of
\* trailing 'Z's, number of fields, blanks around the fields
Fractions == {<<>>, <<"0", "0", "0">>, <<"0", "0", "0", "0", "0", "0">>, <<"0", "0", "0", "0", "0", "0", "0", "0", "0">>, <<"1", "2", "3", "4", "5", "6", "7", "8", "9">>}

FormatInputs ==
    { [BaseInput EXCEPT !.y = y, !.m = md[1], !.d = md[2], !.frac = f, !.zs = z,
                        !.fields = n, !.pad = p, !.sym = Ticker(c, y % 10)] :
        y \in Years, md \in {<<3, 12>>, <<7, 10>>}, f \in Fractions,
        z \in 0..MaxTrailingZ, n \in 1..(MaxMiddleFields + 2), p \in BOOLEAN,
        c \in {"H", "U"} }

\* raw timestamp texts; ok says that the text is a well-formed date-time
\* (of day 12 of March of year y)
YearDash(y) == FourDigits(y) \o <<"-">>

RawTimestamps(y) ==
    { [text |-> <<"i", "n", "v", "a", "l", "i", "d", "_", "t", "i", "m", "e", "s", "t", "a", "m", "p">>, ok |-> FALSE],
      [text |-> <<>>, ok |-> FALSE],
      [text |-> YearDash(y) \o <<"1", "3", "-", "0", "1", "T", "0", "6", ":", "1", "2", ":", "0", "0">>, ok |-> FALSE],
      [text |-> FourDigits(y) \o <<"/", "0", "3", "/", "1", "2", "T", "0", "6", ":", "1", "2", ":", "0", "0">>, ok |-> FALSE],
      [text |-> YearDash(y) \o <<"0", "3", "-", "1", "2", "T">>, ok |-> FALSE],
      [text |-> YearDash(y) \o <<"0", "3", "-", "1", "2", "T", "0", "6", ":", "1">>, ok |-> FALSE],
      [text |-> YearDash(y) \o <<"0", "3", "-", "1", "2", "T", "2", "4", ":", "0", "0", ":", "0", "0">>, ok |-> FALSE],
      [text |-> YearDash(y) \o <<"0", "3", "-", "1", "2", "T", "0", "6", ":", "1", "2", ":", "6", "0">>, ok |-> FALSE],
      [text |-> YearDash(y) \o <<"0", "3", "-", "1", "2", "T", "0", "6", ":", "1", "2", ":", "0", "0", ".">>, ok |-> FALSE],
      [text |-> YearDash(y) \o <<"0", "3", "-", "1", "2", "T", "0", "6", ":", "1", "2", ":", "0", "0", "Z", ".", "1", "2", "3">>, ok |-> FALSE],
      [text |-> YearDash(y) \o <<"0", "3", "-", "1", "2", "T", "0", "6", ":", "1", "2", ":", "0", "x">>, ok |-> FALSE],
      [text |-> YearDash(y) \o <<"0", "3", "-", "1", "2">>, ok |-> TRUE],
      [text |-> YearDash(y) \o <<"0", "3", "-", "1", "2", "T", "0", "6">>, ok |-> TRUE],
      [text |-> YearDash(y) \o <<"0", "3", "-", "1", "2", " ", "0", "6", ":", "1", "2">>, ok |-> TRUE] }

RawInputs ==
    UNION { { [BaseInput EXCEPT !.kind = "text", !.y = y, !.text = r.text, !.ok = r.ok,
                                !.zs = z, !.sym = Ticker(c, y % 10)] :
                r \in RawTimestamps(y), z \in 0..MaxTrailingZ, c \in {"H", "M"} } :
            y \in Years }

\* symbols that are too short, carry an unknown month code or no year digit,
\* and spreads: text before the front-month suffix of 12 March of year y
OddSymbols(y) ==
    LET g == DigitChars[(y % 10) + 1]
    IN  { <<>>, <<g>>, <<"H", g>>, <<"N", "Q">>, <<"Q", "H", g>>,
          <<"N", "Q", "X", g>>, <<"N", "Q", "h", g>>, <<"N", "Q", "H", "?">>,
          <<"N", "Q", "H", "H">>, <<"N", "Q", g, "H">>, <<"N", "Q", "H", " ", g>>,
          <<"-", "H", g>>, <<"N", "Q", "-", "H", g>>, <<"N", "Q", "H", g, "-">>,
          <<"N", "Q", "H", "-", g>>, <<"N", "Q", "H", "-">>, <<"-">>,
          <<"N", "Q", "H", g, "-", "N", "Q", "M", g>>,
          <<"N", "Q", "M", g, "-", "N", "Q", "H", g>> }

OddSymbolInputs ==
    UNION { { [BaseInput EXCEPT !.y = y, !.zs = z, !.pad = p, !.sym = s] :
                z \in 0..MaxTrailingZ, p \in BOOLEAN, s \in OddSymbols(y) }
            \cup
            { [BaseInput EXCEPT !.kind = "text", !.y = y, !.text = r.text,
                                !.ok = r.ok, !.sym = s] :
                r \in RawTimestamps(y), s \in OddSymbols(y) } :
            y \in Years }

IsInput(i) == \/ CalendarInput(i)
              \/ LastInstantInput(i)
              \/ i \in FormatInputs
              \/ i \in RawInputs
              \/ i \in OddSymbolInputs

(***************************************************************************)
(* The validator object and the position in is_valid_front_month.          *)
(***************************************************************************)
VARIABLES input, record, dt, symbol, candidate_year, candidate_month,
          sym_month, sym_year, pc, result

vars == <<input, record, dt, symbol, candidate_year, candidate_month,
          sym_month, sym_year, pc, result>>

\* FrontMonthValidator(record): every parsed field is None
Init == /\ IsInput(input)
        /\ record = RecordText(input)
        /\ dt = None
        /\ symbol = None
        /\ candidate_year = None
        /\ candidate_month = None
        /\ sym_month = None
        /\ sym_year = None
        /\ pc = "parse_record"
        /\ result = None

\* if not self.parse_record(): return False
ParseRecord ==
    /\ pc = "parse_record"
    /\ LET r == parse_record(record)
       IN  /\ dt' = r.dt
           /\ symbol' = r.symbol
           /\ IF r.ret
              THEN pc' = "compute_candidate_month" /\ result' = result
              ELSE pc' = "returned" /\ result' = Some(FALSE)
    /\ UNCHANGED <<input, record, candidate_year, candidate_month, sym_month, sym_year>>

\* self.compute_candidate_month()
ComputeCandidateMonth ==
    /\ pc = "compute_candidate_month"
    /\ IF IsNone(dt)
       THEN UNCHANGED <<candidate_year, candidate_month>>
       ELSE LET c == compute_candidate_month(Value(dt))
            IN  /\ candidate_year' = Some(c[1])
                /\ candidate_month' = Some(c[2])
    /\ pc' = "parse_symbol"
    /\ UNCHANGED <<input, record, dt, symbol, sym_month, sym_year, result>>

\* if not self.parse_symbol(): return False
ParseSymbol ==
    /\ pc = "parse_symbol"
    /\ LET r == parse_symbol(symbol, candidate_year, sym_month, sym_year)
       IN  /\ sym_month' = r.sym_month
           /\ sym_year' = r.sym_year
           /\ IF r.raised THEN pc' = "raised" /\ result' = result
              ELSE IF r.ret THEN pc' = "compare" /\ result' = result
              ELSE pc' = "returned" /\ result' = Some(FALSE)
    /\ UNCHANGED <<input, record, dt, symbol, candidate_year, candidate_month>>

\* variant: the months alone are compared
SameContract_MonthOnly(cm, sm, cy, sy) == cm = sm

\* return candidate_month == sym_month and candidate_year == sym_year
SameContract(cm, sm, cy, sy) == cm = sm /\ cy = sy

Compare ==
    /\ pc = "compare"
    /\ result' = Some(SameContract(candidate_month, sym_month, candidate_year, sym_year))
    /\ pc' = "returned"
    /\ UNCHANGED <<input, record, dt, symbol, candidate_year, candidate_month,
                   sym_month, sym_year>>

Next == ParseRecord \/ ComputeCandidateMonth \/ ParseSymbol \/ Compare

Spec == Init /\ [][Next]_vars

(***************************************************************************)
(* What a record is, read off the parts it was written from.               *)
(***************************************************************************)
\* the date the timestamp field is written for
InputDate == IF input.kind = "text" THEN Date(input.y, 3, 12)
             ELSE Date(input.y, input.m, input.d)

\* the timestamp field, its trailing 'Z's aside, is a well-formed date-time
WellFormedTimestamp == IF input.kind = "text" THEN input.ok
                       ELSE input.d <= DaysInMonth(input.y, input.m)

HasTwoFields == input.fields >= 2
LastField == IF input.fields = 1 THEN TimestampText(input) ELSE input.sym
Spread == Contains(LastField, "-")
Parses == HasTwoFields /\ ~Spread /\ WellFormedTimestamp

SymbolLongEnough == Len(input.sym) >= 3
KnownMonthCode == Len(input.sym) >= 2 /\ input.sym[Len(input.sym) - 1] \in Codes
YearDigitGiven == Len(input.sym) >= 1 /\ IsDigit(input.sym[Len(input.sym)])
Decodes == SymbolLongEnough /\ KnownMonthCode /\ YearDigitGiven

InputCode == input.sym[Len(input.sym) - 1]
InputDigit == DigitVal(input.sym[Len(input.sym)])

CodeOfMonth(m) == CHOOSE c \in Codes : MONTH_CODES[c] = m

ContractMonths == {3, 6, 9, 12}

\* the third Friday of a month, found by looking at the weekdays of days 15..21
ThirdFridayOf(y, m) == Date(y, m, CHOOSE d \in 15..21 : Weekday(Date(y, m, d)) = 4)

DateLt(a, b) == DateLeq(a, b) /\ a # b

\* the positions at which a stage of is_valid_front_month is still to run
Stages == {"parse_record", "compute_candidate_month", "parse_symbol", "compare"}

Returned == pc = "returned"
\* compute_candidate_month has just run on a parsed record
CandidateComputed == pc = "parse_symbol" /\ Parses
CandidateKnown == pc \in {"parse_symbol", "compare", "returned"} /\ Parses
Accepted == Returned /\ result = Some(TRUE)
Rejected == Returned /\ result = Some(FALSE)

(***************************************************************************)
(* C1.  A record is accepted if and only if it parses (two fields or more, *)
(* no hyphen in the symbol, well-formed timestamp), its symbol decodes     *)
(* (three characters or more, known month code, year digit) and the        *)
(* candidate contract of its date equals the contract of its symbol in     *)
(* year and in month.                                                      *)
(***************************************************************************)
C1_AcceptedIffSameContract ==
    Returned =>
        /\ result \in {Some(TRUE), Some(FALSE)}
        /\ result = Some(TRUE) <=>
             /\ Parses
             /\ Decodes
             /\ LET c == compute_candidate_month(InputDate)
                IN  /\ c[2] = MONTH_CODES[InputCode]
                    /\ c[1] = contract_year(c[1], InputDigit)
        /\ result = Some(TRUE) <=>
             /\ Parses
             /\ Decodes
             /\ candidate_month = sym_month
             /\ candidate_year = sym_year

\* a fully parsed record whose month matches and whose year differs is rejected
C1_Witness ==
    /\ Rejected /\ Parses /\ Decodes
    /\ candidate_month = sym_month
    /\ ~IsNone(sym_year) /\ candidate_year # sym_year

(***************************************************************************)
(* C2.  On every day of a contract month up to and including its third     *)
(* Friday, at any time of that day, the candidate contract is that month   *)
(* of that year.                                                           *)
(***************************************************************************)
C2_FrontUntilThirdFriday ==
    ( /\ CandidateKnown
      /\ InputDate.month \in ContractMonths
      /\ DateLeq(InputDate, ThirdFridayOf(InputDate.year, InputDate.month)) )
    => /\ candidate_year = Some(InputDate.year)
       /\ candidate_month = Some(InputDate.month)

\* the last microsecond of a third Friday, accepted with the expiring contract
C2_Witness ==
    /\ Accepted
    /\ input.kind = "stamp" /\ input.m \in ContractMonths
    /\ InputDate = ThirdFridayOf(input.y, input.m)
    /\ input.hh = 23 /\ input.mi = 59 /\ input.ss = 59 /\ Len(input.frac) = 6
    /\ candidate_month = Some(input.m)

(***************************************************************************)
(* C3.  On every day of a contract month after its third Friday the        *)
(* candidate is the next quarterly contract (March of the next year after  *)
(* December), and a symbol of the expired contract is rejected.            *)
(***************************************************************************)
C3_RollsAfterThirdFriday ==
    ( /\ CandidateKnown
      /\ InputDate.month \in ContractMonths
      /\ DateLt(ThirdFridayOf(InputDate.year, InputDate.month), InputDate) )
    => /\ candidate_year = Some(IF InputDate.month = 12 THEN InputDate.year + 1
                                ELSE InputDate.year)
       /\ candidate_month = Some(IF InputDate.month = 12 THEN 3
                                 ELSE InputDate.month + 3)
       /\ ( /\ Returned
            /\ input.sym = Ticker(CodeOfMonth(InputDate.month), InputDate.year % 10) )
          => result = Some(FALSE)

\* the day after the third Friday of a December, with the expired symbol
C3_Witness ==
    /\ Rejected /\ Parses
    /\ input.kind = "stamp" /\ input.m = 12
    /\ ToOrdinal(InputDate) = ToOrdinal(ThirdFridayOf(input.y, 12)) + 1
    /\ input.sym = Ticker("Z", input.y % 10)
    /\ candidate_year = Some(input.y + 1) /\ candidate_month = Some(3)

(***************************************************************************)
(* C4.  On every day of a month that is no contract month the candidate is *)
(* the next contract month of the same year.                               *)
(***************************************************************************)
C4_NonContractMonth ==
    ( /\ CandidateKnown
      /\ InputDate.month \notin ContractMonths )
    => /\ candidate_year = Some(InputDate.year)
       /\ \E m \in ContractMonths :
            /\ candidate_month = Some(m)
            /\ m > InputDate.month
            /\ \A k \in ContractMonths : k > InputDate.month => m <= k

\* the last day of a November: December of the same year
C4_Witness ==
    /\ CandidateKnown
    /\ input.kind = "stamp" /\ input.m = 11 /\ input.d = 30
    /\ candidate_month = Some(12) /\ candidate_year = Some(input.y)

(***************************************************************************)
(* C5.  The year of the symbol is the one year of candidate_year ..        *)
(* candidate_year + 9 that ends in the symbol's digit: the decade of the   *)
(* candidate year plus the digit, and ten more when that lies before the   *)
(* candidate year.                                                         *)
(***************************************************************************)
C5_SymbolYearInDecadeAhead ==
    ( /\ pc \in {"compare", "returned"}
      /\ Parses /\ Decodes )
    => /\ ~IsNone(candidate_year) /\ ~IsNone(sym_year)
       /\ LET c == Value(candidate_year)
              y == Value(sym_year)
              low == (c \div 10) * 10 + InputDigit
          IN  /\ y \in c..(c + 9)
              /\ y % 10 = InputDigit
              /\ \A z \in c..(c + 9) : z % 10 = InputDigit => z = y
              /\ y = IF low >= c THEN low ELSE low + 10

\* candidate year ending in 9 and digit 0: the first year of the next decade
C5_Witness ==
    /\ pc = "compare" /\ Parses /\ Decodes
    /\ Value(candidate_year) % 10 = 9
    /\ InputDigit = 0
    /\ Value(sym_year) = Value(candidate_year) + 1

(***************************************************************************)
(* C6.  is_valid_front_month ends with a boolean and no exception leaves   *)
(* it; a record of fewer than two fields, a timestamp that is not          *)
(* well-formed once cleaned, a symbol of fewer than three characters, an   *)
(* unknown month code and a missing year digit each give False, and a      *)
(* stage that fails keeps the later stages from running.                   *)
(***************************************************************************)
C6_NeverRaises ==
    /\ pc # "raised"
    /\ ~Returned => (pc \in Stages /\ IsNone(result))
    /\ Returned => result \in {Some(TRUE), Some(FALSE)}
    /\ (Returned /\ (~HasTwoFields \/ ~WellFormedTimestamp))
         => /\ result = Some(FALSE)
            /\ IsNone(dt) /\ IsNone(symbol)
            /\ IsNone(candidate_year) /\ IsNone(candidate_month)
            /\ IsNone(sym_month) /\ IsNone(sym_year)
    /\ (Returned /\ HasTwoFields /\ ~Decodes)
         => /\ result = Some(FALSE)
            /\ IsNone(sym_month) /\ IsNone(sym_year)

\* a good timestamp with a symbol of one character
C6_Witness ==
    /\ Rejected /\ Parses
    /\ Len(input.sym) = 1
    /\ ~IsNone(candidate_year) /\ IsNone(sym_month)

(***************************************************************************)
(* C7.  A record whose last field holds a hyphen is rejected by            *)
(* parse_record, whatever its timestamp and whatever its last two          *)
(* characters: no field of the validator is assigned.                      *)
(***************************************************************************)
C7_SpreadRejected ==
    (Spread /\ pc # "parse_record")
    => /\ Rejected
       /\ IsNone(dt) /\ IsNone(symbol)
       /\ IsNone(candidate_year) /\ IsNone(candidate_month)
       /\ IsNone(sym_month) /\ IsNone(sym_year)

\* a spread that ends in the front-month suffix of a well-formed date
C7_Witness ==
    /\ Rejected /\ Spread /\ HasTwoFields /\ WellFormedTimestamp /\ Decodes
    /\ LET c == compute_candidate_month(InputDate)
       IN  /\ MONTH_CODES[InputCode] = c[2]
           /\ InputDigit = c[1] % 10
    /\ IsNone(dt)

(***************************************************************************)
(* C8.  For a contract month, get_third_friday gives a day of that month   *)
(* and year that is a Friday, lies between the 15th and the 21st, has      *)
(* exactly two Fridays of the month before it, and is day 1 plus           *)
(* (4 - weekday(day 1) + 7) mod 7 plus 14.                                 *)
(***************************************************************************)
C8_ThirdFriday ==
    ( /\ pc = "parse_symbol"
      /\ ~IsNone(dt)
      /\ Value(dt).month \in ContractMonths )
    => LET y == Value(dt).year
           m == Value(dt).month
           f == get_third_friday(y, m)
       IN  /\ f.year = y /\ f.month = m
           /\ Weekday(f) = 4
           /\ f.day \in 15..21
           /\ Cardinality({d \in 1..(f.day - 1) : Weekday(Date(y, m, d)) = 4}) = 2
           /\ f.day = 1 + ((4 - Weekday(Date(y, m, 1)) + 7) % 7) + 14

\* 17 March 2028, the eve of the day test_non_front_month_after_expiration uses
C8_Witness ==
    /\ ~IsNone(dt)
    /\ Value(dt).month \in ContractMonths
    /\ get_third_friday(Value(dt).year, Value(dt).month) =
         Date(Value(dt).year, Value(dt).month, Value(dt).day)
    /\ Value(dt).year = 2028 /\ Value(dt).month = 3 /\ Value(dt).day = 17
    /\ pc = "parse_symbol"

(***************************************************************************)
(* C9.  Only one trailing 'Z' is stripped, so a record whose timestamp     *)
(* ends in two or more 'Z's is rejected.                                   *)
(***************************************************************************)
C9_DoubleZRejected ==
    (Returned /\ input.zs >= 2) => result = Some(FALSE)

(***************************************************************************)
(* C10.  The candidate is the earliest quarterly contract that has not     *)
(* expired: its month is a contract month, the date is on or before its    *)
(* third Friday, and the third Friday of every earlier quarterly contract  *)
(* lies before the date.  Of the symbols of a date exactly one suffix is   *)
(* accepted: the month code of the candidate month with the last digit of  *)
(* the candidate year.                                                     *)
(***************************************************************************)
C10_EarliestUnexpired ==
    /\ CandidateComputed =>
        /\ ~IsNone(candidate_year) /\ ~IsNone(candidate_month)
        /\ LET cy == Value(candidate_year)
               cm == Value(candidate_month)
           IN  /\ cm \in ContractMonths
               /\ DateLeq(InputDate, ThirdFridayOf(cy, cm))
               /\ \A y \in (InputDate.year - 1)..cy, m \in ContractMonths :
                    (y < cy \/ (y = cy /\ m < cm))
                      => DateLt(ThirdFridayOf(y, m), InputDate)
    /\ (Returned /\ Parses /\ Decodes) =>
        (result = Some(TRUE) <=>
           /\ InputCode = CodeOfMonth(Value(candidate_month))
           /\ InputDigit = Value(candidate_year) % 10)

\* a date after the December expiration, accepted with March of the next year
C10_Witness ==
    /\ Accepted
    /\ input.kind = "stamp" /\ input.m = 12
    /\ candidate_year = Some(input.y + 1)
    /\ InputCode = "H" /\ InputDigit = (input.y + 1) % 10

====
